---- MODULE Spec2Model ----
(***************************************************************************)
(* State-machine model of odin.py, a command-line chat client: credential  *)
(* loading, first input, resume-or-new conversation, slogan based file     *)
(* naming, the request / persist loop and the SIGINT handler.              *)
(*                                                                         *)
(* Text is a sequence of one-character strings.  An optional value         *)
(* (Python None or a value) is a sequence of length 0 or 1.                *)
(***************************************************************************)
EXTENDS Integers, Sequences, FiniteSets, TLC

VARIABLES
  env_key,              \* os.environ.get('OPENAI_APIKEY'): optional text
  key_file,             \* ~/.openai/apikey: optional [mode, content]
  tty,                  \* sys.stdin.isatty()
  args_file,            \* args.file: optional text
  cwd,                  \* working directory of the process (a path)
  dirs,                 \* directories of the filesystem (absolute part lists)
  files,                \* regular files: absolute part list -> content
  pc,                   \* position of the main thread
  HEADERS,              \* optional text of the bearer key
  interactive_mode,     \* module global
  conversation_file,    \* module global: optional path
  message,              \* main(): message
  conversation_history, \* main(): conversation_history
  slogan,               \* main(): slogan
  filename,             \* main(): filename (text)
  counter,              \* main(): counter
  stdout,               \* what was printed, in order
  requests,             \* HTTP POSTs made, in order
  exit_status,          \* optional exit status of the process
  exit_cause,           \* why the process ended
  loaded,               \* optional: turns json.load returned and the file read
  written,              \* absolute part lists opened for writing
  exchanges,            \* replies received by the chat loop
  persisted,            \* json.dump calls completed by the chat loop
  eof_seen,             \* a readline() on the terminal returned end-of-stream
  posts_after_eof       \* chat requests sent after eof_seen

vars == << env_key, key_file, tty, args_file, cwd, dirs, files, pc, HEADERS,
           interactive_mode, conversation_file, message, conversation_history,
           slogan, filename, counter, stdout, requests, exit_status,
           exit_cause, loaded, written, exchanges, persisted, eof_seen, posts_after_eof >>

config == << env_key, key_file, tty, args_file, cwd >>

None == << >>
Some(v) == << v >>

(***************************************************************************)
(* Bounds of the model.                                                    *)
(***************************************************************************)
MaxExchanges == 2

(***************************************************************************)
(* str methods used by the program.                                        *)
(***************************************************************************)
LowerSeq == << "a","b","c","d","e","f","g","h","i","j","k","l","m",
               "n","o","p","q","r","s","t","u","v","w","x","y","z" >>
UpperSeq == << "A","B","C","D","E","F","G","H","I","J","K","L","M",
               "N","O","P","Q","R","S","T","U","V","W","X","Y","Z" >>
DigitSeq == << "0","1","2","3","4","5","6","7","8","9" >>

Range(s) == { s[i] : i \in DOMAIN s }

LowerLetters == Range(LowerSeq)
UpperLetters == Range(UpperSeq)
Whitespace == { " ", "\t", "\n" }

IsAlpha(c) == c \in LowerLetters \cup UpperLetters
IsSpace(c) == c \in Whitespace

CharLower(c) ==
  IF c \in UpperLetters
    THEN LowerSeq[CHOOSE i \in DOMAIN UpperSeq : UpperSeq[i] = c]
    ELSE c

\* str.lower()
StrLower(s) == [ i \in 1..Len(s) |-> CharLower(s[i]) ]

RECURSIVE LStrip(_)
LStrip(s) == IF s # << >> /\ IsSpace(Head(s)) THEN LStrip(Tail(s)) ELSE s

RECURSIVE RStrip(_)
RStrip(s) ==
  IF s # << >> /\ IsSpace(s[Len(s)]) THEN RStrip(SubSeq(s, 1, Len(s) - 1)) ELSE s

\* str.strip()
Strip(s) == RStrip(LStrip(s))

\* ''.join(c for c in response if c.isalpha() or c.isspace())
KeepAlphaSpace(s) == SelectSeq(s, LAMBDA c : IsAlpha(c) \/ IsSpace(c))

\* str.replace(' ', '_')
ReplaceSpaces(s) == [ i \in 1..Len(s) |-> IF s[i] = " " THEN "_" ELSE s[i] ]

\* str(counter) inside an f-string
RECURSIVE IntStr(_)
IntStr(n) ==
  IF n < 10 THEN << DigitSeq[n + 1] >>
            ELSE IntStr(n \div 10) \o << DigitSeq[(n % 10) + 1] >>

DotJson == << ".", "j", "s", "o", "n" >>

\* generate_slogan(): the post-processing of the model's reply
PostProcess(r) == ReplaceSpaces(Strip(KeepAlphaSpace(StrLower(r))))

\* f'{slogan}.json'
BaseFilename(s) == s \o DotJson

\* a numbering that starts one too high
NumberedFilenameSkip(s, n) == s \o << "_" >> \o IntStr(n + 1) \o DotJson

\* f'{slogan}_{counter}.json'
NumberedFilename(s, n) == s \o << "_" >> \o IntStr(n) \o DotJson

(***************************************************************************)
(* pathlib.  A path is [abs, parts]; a part is a text.                     *)
(***************************************************************************)
RECURSIVE SplitSlash(_, _)
SplitSlash(s, cur) ==
  IF s = << >> THEN (IF cur = << >> THEN << >> ELSE << cur >>)
  ELSE IF Head(s) = "/"
    THEN (IF cur = << >> THEN << >> ELSE << cur >>) \o SplitSlash(Tail(s), << >>)
    ELSE SplitSlash(Tail(s), Append(cur, Head(s)))

\* Path(text)
Path(s) == [ abs |-> s # << >> /\ Head(s) = "/",
             parts |-> SelectSeq(SplitSlash(s, << >>), LAMBDA q : q # << "." >>) ]

\* base / other
JoinPath(base, other) ==
  IF other.abs THEN other
               ELSE [ abs |-> base.abs, parts |-> base.parts \o other.parts ]

HOME == Path(<< "/", "h" >>)
API_KEY_PATH == JoinPath(HOME, Path(<< ".", "o", "/", "k" >>))
CONVERSATIONS_DIR == JoinPath(HOME, Path(<< ".", "o", "/", "c" >>))

\* Path.expanduser()
ExpandUser(p) ==
  IF ~p.abs /\ p.parts # << >> /\ Head(p.parts) = << "~" >>
    THEN JoinPath(HOME, [ abs |-> FALSE, parts |-> Tail(p.parts) ])
    ELSE p

\* the file the operating system opens for a path: relative to cwd
Resolve(p) == IF p.abs THEN p.parts ELSE cwd.parts \o p.parts

Parent(parts) == SubSeq(parts, 1, Len(parts) - 1)

Prefixes(parts) == { SubSeq(parts, 1, n) : n \in 0..Len(parts) }

\* Path.exists()
Exists(p) == Resolve(p) \in dirs \/ Resolve(p) \in DOMAIN files

(***************************************************************************)
(* stat bits.                                                              *)
(***************************************************************************)
S_IRWXG == 56
S_IRWXO == 7

RECURSIVE BitAnd(_, _)
BitAnd(a, b) ==
  IF a = 0 \/ b = 0 THEN 0
  ELSE (a % 2) * (b % 2) + 2 * BitAnd(a \div 2, b \div 2)

RECURSIVE BitOr(_, _)
BitOr(a, b) ==
  IF a = 0 THEN b
  ELSE IF b = 0 THEN a
  ELSE (IF a % 2 = 1 \/ b % 2 = 1 THEN 1 ELSE 0) + 2 * BitOr(a \div 2, b \div 2)

\* a permission test that forgets the group bits
OtherBitsOnly(mode) == BitAnd(mode, S_IRWXO)

\* API_KEY_PATH.stat().st_mode & (stat.S_IRWXG | stat.S_IRWXO)
GroupOtherBits(mode) == BitAnd(mode, BitOr(S_IRWXG, S_IRWXO))

(***************************************************************************)
(* Conversations and their JSON files.                                     *)
(***************************************************************************)
Turn(role, content) == [ role |-> role, content |-> content ]

\* args.system
SystemMessage == << "S" >>

\* json.dump(conversation_history, f, indent=2): the finished file
JsonDump(history) == [ complete |-> TRUE, turns |-> history ]

\* what open('w') leaves before json.dump has run
Truncated == [ complete |-> FALSE, turns |-> << >> ]

\* json.load(f)
JsonLoad(content) == content.turns

IsPrefix(s, t) == Len(s) <= Len(t) /\ SubSeq(t, 1, Len(s)) = s

(***************************************************************************)
(* Inputs of a run.                                                        *)
(***************************************************************************)
EnvValues == { None, Some(<< >>), Some(<< " ", "e", "\n" >>) }

\* 0o600, 0o640, 0o604, 0o660, 0o610
KeyModes == { 384, 416, 388, 432, 392 }

KeyFiles == { None } \cup
            { Some([ mode |-> m, content |-> << "f", "\n" >> ]) : m \in KeyModes }

ArgsFiles == { None,
               Some(<< "/", "d", "/", "x" >>),
               Some(<< "x" >>),
               Some(<< "~", "/", "x" >>) }

WorkingDirs == { HOME, CONVERSATIONS_DIR }

\* what the terminal hands to readline(); << >> is end-of-stream
EndOfStream == << >>
TerminalReads == { << "h", "i", "\n" >>, EndOfStream }

\* what a pipe hands to read()
StdinContents == { << " ", "2", "+", "2", "?", "\n" >>, << >> }

\* choices[0].message.content of a successful slogan reply
SloganReplies == { << "L", "a", "u", "n", "c", "h" >>,
                   << "W", "a", "r", "m", " ", "G", "o", "!", "\n" >>,
                   << "a", "\t", "b" >>,
                   << "4", "2" >> }

\* choices[0].message.content of a successful chat reply
ChatReplies == { << "4" >>, << " ", "o", "k", "\n" >> }

Launch == << "l", "a", "u", "n", "c", "h" >>

\* names that may already be present in the conversation directory
CandidateNames == { BaseFilename(Launch), NumberedFilename(Launch, 1),
                    NumberedFilename(Launch, 2), << "x" >> }

Saved3 == << Turn("system", SystemMessage), Turn("user", << "q" >>),
             Turn("assistant", << "r" >>) >>
Saved1 == << Turn("system", SystemMessage) >>
Saved0 == << >>

ConvPath(name) == CONVERSATIONS_DIR.parts \o << name >>

InitialFiles(names) ==
  [ p \in { << << "d" >>, << "x" >> >>, HOME.parts \o << << "x" >> >> }
          \cup { ConvPath(n) : n \in names } |->
      IF p = << << "d" >>, << "x" >> >> THEN JsonDump(Saved3)
      ELSE IF p = HOME.parts \o << << "x" >> >> THEN JsonDump(Saved0)
      ELSE JsonDump(Saved1) ]

Init ==
  /\ env_key \in EnvValues
  /\ key_file \in KeyFiles
  /\ tty \in BOOLEAN
  /\ args_file \in ArgsFiles
  /\ cwd \in WorkingDirs
  /\ \E present \in BOOLEAN, names \in SUBSET CandidateNames :
       /\ cwd = CONVERSATIONS_DIR => present
       /\ ~present => names = {}
       /\ dirs = { << >>, HOME.parts, << << "d" >> >> }
                 \cup (IF present THEN Prefixes(CONVERSATIONS_DIR.parts) ELSE {})
                 \cup (IF key_file # None THEN { Parent(API_KEY_PATH.parts) } ELSE {})
       /\ files = InitialFiles(names)
  /\ pc = "start"
  /\ HEADERS = None
  /\ interactive_mode = FALSE
  /\ conversation_file = None
  /\ message = << >>
  /\ conversation_history = << >>
  /\ slogan = << >>
  /\ filename = << >>
  /\ counter = 0
  /\ stdout = << >>
  /\ requests = << >>
  /\ exit_status = None
  /\ exit_cause = "running"
  /\ loaded = None
  /\ written = {}
  /\ exchanges = 0
  /\ persisted = 0
  /\ eof_seen = FALSE
  /\ posts_after_eof = 0

(***************************************************************************)
(* Output and process exit.                                                *)
(***************************************************************************)
Line(kind) == [ kind |-> kind, text |-> << >>, path |-> None ]
ReplyLine(text) == [ kind |-> "reply", text |-> text, path |-> None ]
PathLine(p) == [ kind |-> "stored_in", text |-> << >>, path |-> Some(p) ]

\* sys.exit(status), the return of main(), or an uncaught exception
Exit(status, cause, lines) ==
  /\ pc' = "exited"
  /\ exit_status' = Some(status)
  /\ exit_cause' = cause
  /\ stdout' = stdout \o lines

\* an uncaught exception: traceback on stderr, exit status 1
Raise == Exit(1, "exception", << >>)

Running == pc # "exited"

(***************************************************************************)
(* load_api_key()                                                          *)
(***************************************************************************)
\* if api_key:
EnvKeySet == env_key # None /\ env_key[1] # << >>

AfterLoad(key) ==
  /\ HEADERS' = Some(key)
  /\ pc' = "setup"
  /\ UNCHANGED << stdout, exit_status, exit_cause >>

LoadApiKeyFromEnv ==
  /\ pc = "start"
  /\ EnvKeySet
  /\ AfterLoad(Strip(env_key[1]))
  /\ UNCHANGED << config, dirs, files, interactive_mode, conversation_file,
                  message, conversation_history, slogan, filename, counter,
                  requests, loaded, written, exchanges, persisted, eof_seen,
                  posts_after_eof >>

LoadApiKeyMissing ==
  /\ pc = "start"
  /\ ~EnvKeySet
  /\ key_file = None
  /\ Exit(1, "key_error", << Line("error_key_not_found"), Line("error_key_hint") >>)
  /\ UNCHANGED << config, dirs, files, HEADERS, interactive_mode,
                  conversation_file, message, conversation_history, slogan,
                  filename, counter, requests, loaded, written, exchanges,
                  persisted, eof_seen, posts_after_eof >>

LoadApiKeyInsecure ==
  /\ pc = "start"
  /\ ~EnvKeySet
  /\ key_file # None
  /\ GroupOtherBits(key_file[1].mode) # 0
  /\ Exit(1, "key_error", << Line("error_key_permissions") >>)
  /\ UNCHANGED << config, dirs, files, HEADERS, interactive_mode,
                  conversation_file, message, conversation_history, slogan,
                  filename, counter, requests, loaded, written, exchanges,
                  persisted, eof_seen, posts_after_eof >>

LoadApiKeyFromFile ==
  /\ pc = "start"
  /\ ~EnvKeySet
  /\ key_file # None
  /\ GroupOtherBits(key_file[1].mode) = 0
  /\ AfterLoad(Strip(key_file[1].content))
  /\ UNCHANGED << config, dirs, files, interactive_mode, conversation_file,
                  message, conversation_history, slogan, filename, counter,
                  requests, loaded, written, exchanges, persisted, eof_seen,
                  posts_after_eof >>

(***************************************************************************)
(* main(): before the loop                                                 *)
(***************************************************************************)
\* CONVERSATIONS_DIR.mkdir(parents=True, exist_ok=True) and the two globals
Setup ==
  /\ pc = "setup"
  /\ dirs' = dirs \cup Prefixes(CONVERSATIONS_DIR.parts)
  /\ conversation_file' = None
  /\ interactive_mode' = tty
  /\ pc' = "read_input"
  /\ UNCHANGED << config, files, HEADERS, message, conversation_history,
                  slogan, filename, counter, stdout, requests, exit_status,
                  exit_cause, loaded, written, exchanges, persisted, eof_seen,
                  posts_after_eof >>

\* get_chat_input('You: '): prompt, then sys.stdin.readline().strip()
GetChatInput(read) ==
  /\ stdout' = Append(stdout, Line("prompt"))
  /\ message' = Strip(read)
  /\ eof_seen' = (eof_seen \/ read = EndOfStream)

ReadFirstInputTerminal ==
  /\ pc = "read_input"
  /\ interactive_mode
  /\ \E read \in TerminalReads : GetChatInput(read)
  /\ pc' = "choose"
  /\ UNCHANGED << config, dirs, files, HEADERS, interactive_mode,
                  conversation_file, conversation_history, slogan, filename,
                  counter, requests, exit_status, exit_cause, loaded, written,
                  exchanges, persisted, posts_after_eof >>

\* sys.stdin.read().strip()
ReadFirstInputPiped ==
  /\ pc = "read_input"
  /\ ~interactive_mode
  /\ \E content \in StdinContents : message' = Strip(content)
  /\ pc' = "choose"
  /\ UNCHANGED << config, dirs, files, HEADERS, interactive_mode,
                  conversation_file, conversation_history, slogan, filename,
                  counter, stdout, requests, exit_status, exit_cause, loaded,
                  written, exchanges, persisted, eof_seen, posts_after_eof >>

\* file_path = Path(args.file).expanduser()
ResumePath == ExpandUser(Path(args_file[1]))

\* a resume that puts the system turn in front of the loaded turns
ResumedHistoryFront(turns) == << Turn("system", SystemMessage) >> \o turns

\* continue_conversation(): conversation_history.append(system turn)
ResumedHistory(turns) == Append(turns, Turn("system", SystemMessage))

ContinueConversation ==
  /\ pc = "choose"
  /\ args_file # None
  /\ Resolve(ResumePath) \in DOMAIN files
  /\ LET turns == JsonLoad(files[Resolve(ResumePath)]) IN
       /\ conversation_history' = ResumedHistory(turns)
       /\ loaded' = Some([ turns |-> turns, file |-> Resolve(ResumePath) ])
  /\ filename' = args_file[1]
  /\ pc' = "loop"
  /\ UNCHANGED << config, dirs, files, HEADERS, interactive_mode,
                  conversation_file, message, slogan, counter, stdout, requests,
                  exit_status, exit_cause, written, exchanges, persisted,
                  eof_seen, posts_after_eof >>

\* file_path.open('r') raises FileNotFoundError
ContinueConversationNoFile ==
  /\ pc = "choose"
  /\ args_file # None
  /\ Resolve(ResumePath) \notin DOMAIN files
  /\ Raise
  /\ UNCHANGED << config, dirs, files, HEADERS, interactive_mode,
                  conversation_file, message, conversation_history, slogan,
                  filename, counter, requests, loaded, written, exchanges,
                  persisted, eof_seen, posts_after_eof >>

\* requests.post(API_BASE_URL, headers=HEADERS, json=data)
Post(caller, messages) ==
  requests' = Append(requests, [ caller |-> caller, messages |-> messages,
                                 authorization |-> HEADERS ])

SloganPrompt(prompt) ==
  << Turn("system", << "s", "u", "m" >>), Turn("user", prompt) >>

\* the new-conversation branch up to the POST made by generate_slogan()
NewConversation ==
  /\ pc = "choose"
  /\ args_file = None
  /\ conversation_history' = << Turn("system", SystemMessage) >>
  /\ Post("generate_slogan", SloganPrompt(message))
  /\ pc' = "slogan_wait"
  /\ UNCHANGED << config, dirs, files, HEADERS, interactive_mode,
                  conversation_file, message, slogan, filename, counter, stdout,
                  exit_status, exit_cause, loaded, written, exchanges, persisted,
                  eof_seen, posts_after_eof >>

\* send_gpt_request(): response.json()[...]['content'].strip()
ReplyText(content) == Strip(content)

\* counter = 1
FirstCounter == 1

\* the slogan reply arrives: generate_slogan() returns and main() names the file
SloganResponse ==
  /\ pc = "slogan_wait"
  /\ \E content \in SloganReplies :
       /\ slogan' = PostProcess(ReplyText(content))
       /\ filename' = BaseFilename(PostProcess(ReplyText(content)))
  /\ counter' = FirstCounter
  /\ pc' = "name_loop"
  /\ UNCHANGED << config, dirs, files, HEADERS, interactive_mode,
                  conversation_file, message, conversation_history, stdout,
                  requests, exit_status, exit_cause, loaded, written, exchanges,
                  persisted, eof_seen, posts_after_eof >>

\* a failed request that is sent again instead of ending the process
RequestFailedRetry ==
  /\ pc \in { "slogan_wait", "chat_wait" }
  /\ Post("retry", << >>)
  /\ UNCHANGED << config, dirs, files, pc, HEADERS, interactive_mode,
                  conversation_file, message, conversation_history, slogan,
                  filename, counter, stdout, exit_status, exit_cause, loaded,
                  written, exchanges, persisted, eof_seen, posts_after_eof >>

\* response.json() or response.raise_for_status() raises
RequestFailed ==
  /\ pc \in { "slogan_wait", "chat_wait" }
  /\ Raise
  /\ UNCHANGED << config, dirs, files, HEADERS, interactive_mode,
                  conversation_file, message, conversation_history, slogan,
                  filename, counter, requests, loaded, written, exchanges,
                  persisted, eof_seen, posts_after_eof >>

\* (CONVERSATIONS_DIR / filename).exists()
FilenameTaken == Exists(JoinPath(CONVERSATIONS_DIR, Path(filename)))

\* one iteration of the while loop that numbers the filename
NameTaken ==
  /\ pc = "name_loop"
  /\ FilenameTaken
  /\ filename' = NumberedFilename(slogan, counter)
  /\ counter' = counter + 1
  /\ UNCHANGED << config, dirs, files, pc, HEADERS, interactive_mode,
                  conversation_file, message, conversation_history, slogan,
                  stdout, requests, exit_status, exit_cause, loaded, written,
                  exchanges, persisted, eof_seen, posts_after_eof >>

NameFree ==
  /\ pc = "name_loop"
  /\ ~FilenameTaken
  /\ pc' = "loop"
  /\ UNCHANGED << config, dirs, files, HEADERS, interactive_mode,
                  conversation_file, message, conversation_history, slogan,
                  filename, counter, stdout, requests, exit_status, exit_cause,
                  loaded, written, exchanges, persisted, eof_seen,
                  posts_after_eof >>

(***************************************************************************)
(* main(): the chat loop                                                   *)
(***************************************************************************)
\* append the user turn and POST the whole conversation
SendChatRequest ==
  /\ pc = "loop"
  /\ conversation_history' = Append(conversation_history, Turn("user", message))
  /\ Post("main", Append(conversation_history, Turn("user", message)))
  /\ posts_after_eof' = posts_after_eof + (IF eof_seen THEN 1 ELSE 0)
  /\ pc' = "chat_wait"
  /\ UNCHANGED << config, dirs, files, HEADERS, interactive_mode,
                  conversation_file, message, slogan, filename, counter, stdout,
                  exit_status, exit_cause, loaded, written, exchanges, persisted,
                  eof_seen >>

\* persistence in every mode
PersistAlways == TRUE

\* if interactive_mode: (the persistence branch)
ShouldPersist == interactive_mode

\* if not interactive_mode: break
OneShot == ~interactive_mode

\* conversation_file = (CONVERSATIONS_DIR / filename)
ConversationFile == JoinPath(CONVERSATIONS_DIR, Path(filename))

\* the reply arrives: assistant turn, print, then persist and / or leave
ChatResponse ==
  /\ pc = "chat_wait"
  /\ \E content \in ChatReplies :
       /\ conversation_history' =
            Append(conversation_history, Turn("assistant", ReplyText(content)))
       /\ IF ~ShouldPersist /\ OneShot
            THEN Exit(0, "return", << ReplyLine(ReplyText(content)) >>)
            ELSE /\ stdout' = Append(stdout, ReplyLine(ReplyText(content)))
                 /\ pc' = IF ShouldPersist THEN "persist_open" ELSE "await_input"
                 /\ UNCHANGED << exit_status, exit_cause >>
  /\ conversation_file' = IF ShouldPersist THEN Some(ConversationFile)
                                           ELSE conversation_file
  /\ exchanges' = exchanges + 1
  /\ UNCHANGED << config, dirs, files, HEADERS, interactive_mode, message,
                  slogan, filename, counter, requests, loaded, written,
                  persisted, eof_seen, posts_after_eof >>

\* the file conversation_file.open('w') opens
PersistTarget == Resolve(conversation_file[1])

CanOpenForWriting(target) == Parent(target) \in dirs /\ target \notin dirs

\* with conversation_file.open('w') as f: creates or truncates the file
PersistOpen ==
  /\ pc = "persist_open"
  /\ CanOpenForWriting(PersistTarget)
  /\ files' = [ p \in DOMAIN files \cup { PersistTarget } |->
                  IF p = PersistTarget THEN Truncated ELSE files[p] ]
  /\ written' = written \cup { PersistTarget }
  /\ pc' = "persist_dump"
  /\ UNCHANGED << config, dirs, HEADERS, interactive_mode, conversation_file,
                  message, conversation_history, slogan, filename, counter,
                  stdout, requests, exit_status, exit_cause, loaded, exchanges,
                  persisted, eof_seen, posts_after_eof >>

\* open('w') raises FileNotFoundError: the parent directory is missing
PersistOpenFailed ==
  /\ pc = "persist_open"
  /\ ~CanOpenForWriting(PersistTarget)
  /\ Raise
  /\ UNCHANGED << config, dirs, files, HEADERS, interactive_mode,
                  conversation_file, message, conversation_history, slogan,
                  filename, counter, requests, loaded, written, exchanges,
                  persisted, eof_seen, posts_after_eof >>

\* a dump of the latest exchange only
PersistedLastExchange ==
  JsonDump(SubSeq(conversation_history, Len(conversation_history) - 1,
                  Len(conversation_history)))

\* what json.dump writes
Persisted == JsonDump(conversation_history)

\* json.dump(conversation_history, f, indent=2), then the file is closed;
\* the loop goes on (interactive_mode holds here) or breaks
PersistDump ==
  /\ pc = "persist_dump"
  /\ files' = [ files EXCEPT ![PersistTarget] = Persisted ]
  /\ persisted' = persisted + 1
  /\ IF OneShot THEN Exit(0, "return", << >>)
                ELSE pc' = "await_input" /\ UNCHANGED << stdout, exit_status, exit_cause >>
  /\ UNCHANGED << config, dirs, HEADERS, interactive_mode, conversation_file,
                  message, conversation_history, slogan, filename, counter,
                  requests, loaded, written, exchanges, eof_seen,
                  posts_after_eof >>

\* message = get_chat_input('You: ') at the end of an iteration
NextInput ==
  /\ pc = "await_input"
  /\ exchanges < MaxExchanges
  /\ \E read \in TerminalReads : GetChatInput(read)
  /\ pc' = "loop"
  /\ UNCHANGED << config, dirs, files, HEADERS, interactive_mode,
                  conversation_file, conversation_history, slogan, filename,
                  counter, requests, exit_status, exit_cause, loaded, written,
                  exchanges, persisted, posts_after_eof >>

(***************************************************************************)
(* signal_handler()                                                        *)
(***************************************************************************)
\* a handler that never reports the file
HandlerPrintsNothing == FALSE

\* if interactive_mode and conversation_file:
HandlerPrintsPath == interactive_mode /\ conversation_file # None

HandlerLines ==
  IF HandlerPrintsPath
    THEN << Line("newline"), PathLine(conversation_file[1]), Line("newline") >>
    ELSE << Line("newline") >>

\* SIGINT delivered while the process runs
Interrupt ==
  /\ Running
  /\ Exit(0, "interrupt", HandlerLines)
  /\ UNCHANGED << config, dirs, files, HEADERS, interactive_mode,
                  conversation_file, message, conversation_history, slogan,
                  filename, counter, requests, loaded, written, exchanges,
                  persisted, eof_seen, posts_after_eof >>

Next ==
  \/ LoadApiKeyFromEnv
  \/ LoadApiKeyMissing
  \/ LoadApiKeyInsecure
  \/ LoadApiKeyFromFile
  \/ Setup
  \/ ReadFirstInputTerminal
  \/ ReadFirstInputPiped
  \/ ContinueConversation
  \/ ContinueConversationNoFile
  \/ NewConversation
  \/ SloganResponse
  \/ RequestFailed
  \/ NameTaken
  \/ NameFree
  \/ SendChatRequest
  \/ ChatResponse
  \/ PersistOpen
  \/ PersistOpenFailed
  \/ PersistDump
  \/ NextInput
  \/ Interrupt

Spec == Init /\ [][Next]_vars

(***************************************************************************)
(* Properties.                                                             *)
(***************************************************************************)
LastTurn == conversation_history[Len(conversation_history)]

CountLines(kind) == Cardinality({ i \in DOMAIN stdout : stdout[i].kind = kind })

CountPosts(caller) ==
  Cardinality({ i \in DOMAIN requests : requests[i].caller = caller })

InConversationsDir(name) ==
  ConvPath(name) \in DOMAIN files \/ ConvPath(name) \in dirs

\* the k-th name of the sequence s.json, s_1.json, s_2.json, ...
SequenceName(s, k) ==
  IF k = 0 THEN s \o << ".", "j", "s", "o", "n" >>
           ELSE s \o << "_" >> \o IntStr(k) \o << ".", "j", "s", "o", "n" >>

\* a new conversation whose name is settled and whose file is not yet written
NameSettled ==
  /\ args_file = None
  /\ pc \in { "loop", "chat_wait", "persist_open" }
  /\ written = {}

\* C1: the filename chosen for a new conversation is the first name of the
\* sequence s.json, s_1.json, s_2.json, ... that is absent from the
\* conversation directory, so it collides with no existing file.
C1_FirstFreeName ==
  NameSettled =>
    \E k \in 0..(Cardinality(DOMAIN files) + 1) :
      /\ filename = SequenceName(slogan, k)
      /\ ~InConversationsDir(SequenceName(slogan, k))
      /\ \A j \in 0..(k - 1) : InConversationsDir(SequenceName(slogan, j))

C1_Witness ==
  /\ NameSettled
  /\ slogan = Launch
  /\ InConversationsDir(SequenceName(Launch, 0))
  /\ InConversationsDir(SequenceName(Launch, 1))
  /\ ~InConversationsDir(SequenceName(Launch, 2))
  /\ filename = << "l", "a", "u", "n", "c", "h", "_", "2", ".", "j", "s", "o", "n" >>

PipedReturn == ~tty /\ exit_cause = "return"

\* C2 as stated: a piped run that ends normally made exactly one
\* chat-completion request, printed the reply once, wrote no file and did
\* not prompt.
C2_OneRequest ==
  PipedReturn =>
    /\ Len(requests) = 1
    /\ CountLines("reply") = 1
    /\ CountLines("prompt") = 0
    /\ written = {}

\* C2 amended: a piped run never prompts, never opens a file for writing and
\* is over once a reply has arrived; one that ends normally made exactly one
\* request from the chat loop, preceded by one slogan request exactly when no
\* --file was given, and printed the reply once, as its only output.
C2_OneLoopExchange ==
  /\ ~tty => /\ written = {}
             /\ CountLines("prompt") = 0
             /\ pc \notin { "persist_open", "persist_dump", "await_input" }
             /\ exchanges >= 1 => pc = "exited"
  /\ PipedReturn =>
       /\ exchanges = 1
       /\ CountPosts("main") = 1
       /\ CountPosts("generate_slogan") = (IF args_file = None THEN 1 ELSE 0)
       /\ Len(requests) = (IF args_file = None THEN 2 ELSE 1)
       /\ Len(stdout) = 1
       /\ stdout[1].kind = "reply"
       /\ stdout[1].text = LastTurn.content
       /\ LastTurn.role = "assistant"

C2_Witness == PipedReturn /\ args_file = None /\ Len(requests) = 2

C2_WitnessResume == PipedReturn /\ args_file # None /\ Len(requests) = 1

BaseLen == IF loaded # None THEN Len(loaded[1].turns) + 1 ELSE 1

AppendOnlyStep ==
  /\ IsPrefix(conversation_history, conversation_history')
  /\ (pc = "loop" /\ pc' # "exited") =>
       conversation_history' =
         conversation_history \o << [ role |-> "user", content |-> message ] >>
  /\ (pc = "chat_wait" /\ exchanges' = exchanges + 1) =>
       /\ Len(conversation_history') = Len(conversation_history) + 1
       /\ conversation_history'[Len(conversation_history')].role = "assistant"
  /\ (pc \notin { "loop", "chat_wait", "choose" }) =>
       conversation_history' = conversation_history

ResumeKeepsLoaded ==
  /\ loaded # None =>
       /\ Len(conversation_history) > Len(loaded[1].turns)
       /\ SubSeq(conversation_history, 1, Len(loaded[1].turns)) = loaded[1].turns
       /\ conversation_history[Len(loaded[1].turns) + 1] =
            [ role |-> "system", content |-> SystemMessage ]
  /\ conversation_history # << >> =>
       \A i \in (BaseLen + 1)..Len(conversation_history) :
         conversation_history[i].role =
           (IF (i - BaseLen) % 2 = 1 THEN "user" ELSE "assistant")

\* C4: every step leaves the previous turn list a prefix of the new one; the
\* turns loaded on resume are a strict prefix of the conversation, followed by
\* the resume system turn; each loop iteration appends one user turn and then
\* one assistant turn.
C4_AppendOnly == [][AppendOnlyStep]_vars /\ []ResumeKeepsLoaded

C4_Witness ==
  /\ loaded # None
  /\ Len(loaded[1].turns) = 3
  /\ exchanges = 2
  /\ Len(conversation_history) = 8

\* the configurations in which no key can be obtained
NoUsableKey ==
  /\ env_key = None \/ env_key = Some(<< >>)
  /\ key_file = None \/ key_file[1].mode % 64 # 0

\* C5: no request is made before a key is loaded; the key comes from the
\* environment variable when that is set and non-empty, otherwise from the
\* key file; with no variable and a missing or group/other-accessible key
\* file the run ends in exit status 1 with a message and makes no request.
C5_CredentialsFirst ==
  /\ requests # << >> => HEADERS # None
  /\ \A i \in DOMAIN requests : requests[i].authorization = HEADERS
  /\ HEADERS # None =>
       /\ ~NoUsableKey
       /\ HEADERS[1] = (IF env_key # None /\ Len(env_key[1]) > 0
                          THEN << "e" >> ELSE << "f" >>)
  /\ NoUsableKey =>
       /\ requests = << >>
       /\ pc \in { "start", "exited" }
       /\ (pc = "exited" /\ exit_cause # "interrupt") =>
            /\ exit_status = Some(1)
            /\ exit_cause = "key_error"
            /\ stdout # << >>
            /\ stdout[1].kind = (IF key_file = None THEN "error_key_not_found"
                                                    ELSE "error_key_permissions")

C5_Witness ==
  /\ env_key = None
  /\ key_file # None
  /\ key_file[1].mode = 416
  /\ pc = "exited"
  /\ exit_status = Some(1)

C5_WitnessEnv ==
  /\ env_key # None
  /\ key_file # None
  /\ key_file[1].mode = 416
  /\ Len(requests) = 2

\* the run ended in an exception raised by the chat request of the loop
ChatRequestFailed ==
  /\ exit_cause = "exception"
  /\ conversation_history # << >>
  /\ LastTurn.role = "user"

\* C6: a failed chat request ends the process with failure after that one
\* request: no retry, no assistant turn, no reply printed, no write; the file
\* holds the conversation of the last successful exchange, or was never
\* written when none succeeded.
C6_FailureIsFatal ==
  /\ CountPosts("main") <= exchanges + 1
  /\ Len(requests) <= exchanges + 2
  /\ pc = "exited" => exit_status # None
  /\ exit_cause = "exception" => exit_status = Some(1)
  /\ ChatRequestFailed =>
       /\ pc = "exited"
       /\ CountPosts("main") = exchanges + 1
       /\ CountLines("reply") = exchanges
       /\ Len(conversation_history) = BaseLen + 2 * exchanges + 1
       /\ persisted = (IF tty THEN exchanges ELSE 0)
       /\ persisted = 0 => written = {}
       /\ (persisted = 0 /\ args_file = None) =>
            ConvPath(filename) \notin DOMAIN files
       /\ persisted >= 1 =>
            /\ files[Resolve(conversation_file[1])].complete
            /\ files[Resolve(conversation_file[1])].turns =
                 SubSeq(conversation_history, 1, Len(conversation_history) - 1)

C6_Witness == ChatRequestFailed /\ tty /\ persisted = 1 /\ args_file = None

C6_WitnessNone == ChatRequestFailed /\ tty /\ persisted = 0 /\ args_file = None

PathPrinted == \E i \in DOMAIN stdout : stdout[i].kind = "stored_in"

\* C7: an interrupt ends the process with exit status 0; the handler prints
\* the conversation file path exactly when the run is interactive and an
\* exchange has reached persistence.
C7_Interrupt ==
  /\ exit_cause = "interrupt" =>
       /\ pc = "exited"
       /\ exit_status = Some(0)
       /\ stdout[Len(stdout)].kind = "newline"
       /\ PathPrinted <=> (tty /\ exchanges >= 1)
       /\ PathPrinted =>
            /\ stdout[Len(stdout) - 1].path = conversation_file
            /\ conversation_file[1] =
                 JoinPath(CONVERSATIONS_DIR, Path(filename))
  /\ exit_cause # "interrupt" => ~PathPrinted

C7_Witness ==
  /\ exit_cause = "interrupt"
  /\ PathPrinted
  /\ persisted = 0

C7_WitnessNoPath ==
  /\ exit_cause = "interrupt"
  /\ tty
  /\ ~PathPrinted
  /\ Len(requests) = 2

\* C8: the slug returned by generate_slogan consists of lowercase letters and
\* underscores only.
C8_SlugIsSafe ==
  counter >= 1 => \A i \in DOMAIN slogan : slogan[i] \in LowerLetters \cup { "_" }

\* C9: once end-of-input was read on the terminal, no further user turn is
\* sent to the model.
C9_StopsAtEndOfInput == posts_after_eof = 0

\* C10: in interactive resume mode, the only file opened for writing is the
\* file the conversation was loaded from, and it is written by the time the
\* loop awaits input again.
C10_WritesBackToLoadedFile ==
  (tty /\ loaded # None) =>
    /\ written \subseteq { loaded[1].file }
    /\ pc = "await_input" => written = { loaded[1].file }

====
